---- MODULE Spec2Model ----
(***************************************************************************)
(* Model of src/config/wizard.rs of narsil-mcp: the neural-embedding API   *)
(* key wizard.  It covers the config merge (add_to_editor_config), the     *)
(* dialect classification (detect_editor_type), the credential rules       *)
(* (sanitize_api_key, validate_key_format, ApiProvider) and the wizard's   *)
(* control flow (run and its prompts).                                     *)
(*                                                                         *)
(* Text is modelled as a sequence of one-character strings, so that trim,  *)
(* starts_with, contains and len are computed as the code computes them.   *)
(* JSON object keys are only ever compared for equality and are modelled   *)
(* as TLA+ strings.                                                        *)
(***************************************************************************)
EXTENDS Integers, Sequences, FiniteSets, TLC

VARIABLES
    files,      \* filesystem: existing regular files, path -> bytes
    dirs,       \* filesystem: existing directories (a set of paths)
    path,       \* merge harness: the config path the calls are made on
    calls,      \* merge harness: number of add_to_editor_config calls made
    last,       \* merge harness: the most recent call (arguments, result, filesystem before it)
    prev,       \* merge harness: the call before the most recent one
    pc,         \* wizard: position of NeuralWizard::run
    wiz,        \* wizard: the locals of run (editors, selection, provider, key, ...)
    trace,      \* wizard: the steps of run completed so far, in order
    fn          \* pure-function harness: the input drawn and the result computed

vars == <<files, dirs, path, calls, last, prev, pc, wiz, trace, fn>>

----------------------------------------------------------------------------
(* Text helpers *)

\* str::contains(needle): needle occurs as a contiguous substring
Contains(hay, needle) ==
    \E i \in 1..(Len(hay) - Len(needle) + 1) :
        SubSeq(hay, i, i + Len(needle) - 1) = needle

\* str::starts_with(prefix)
StartsWith(s, prefix) ==
    /\ Len(s) >= Len(prefix)
    /\ SubSeq(s, 1, Len(prefix)) = prefix

----------------------------------------------------------------------------
(* serde_json::Value *)

Null == [t |-> "null"]
Str(s) == [t |-> "str", s |-> s]
Num(n) == [t |-> "num", n |-> n]
Arr(a) == [t |-> "arr", a |-> a]
Obj(m) == [t |-> "obj", m |-> m]

\* json!({})
EmptyObj == Obj(<<>>)

\* Option::None of Value::get, and the outcome of a panicking index
NoValue == [t |-> "none"]
Panic == [t |-> "panic"]

IsObj(v) == v.t = "obj"

\* Value::get(key): Some(value) for an object holding the key, None otherwise
Get(v, k) ==
    IF IsObj(v) /\ k \in DOMAIN v.m THEN v.m[k] ELSE NoValue

\* impl Index<&str> for Value: Value::Null when v is no object or lacks the key
Index(v, k) ==
    IF IsObj(v) /\ k \in DOMAIN v.m THEN v.m[k] ELSE Null

\* impl IndexMut<&str> for Value, chained along keys and then assigned:
\* v[k1][k2]... = new.  Null becomes an empty object, an object gets the key
\* inserted (as Null) when missing, any other value panics.
RECURSIVE IndexMutSet(_, _, _)
IndexMutSet(v, keys, new) ==
    IF keys = <<>> THEN new
    ELSE IF v.t = "null" \/ v.t = "obj" THEN
        LET m == IF v.t = "null" THEN <<>> ELSE v.m
            k == Head(keys)
            child == IF k \in DOMAIN m THEN m[k] ELSE Null
            r == IndexMutSet(child, Tail(keys), new)
        IN  IF r = Panic THEN Panic
            ELSE Obj([x \in (DOMAIN m) \cup {k} |-> IF x = k THEN r ELSE m[x]])
    ELSE Panic

----------------------------------------------------------------------------
(* Text constants of the program *)

S_zed == <<"z", "e", "d">>
S_vscode == <<".", "v", "s", "c", "o", "d", "e">>
S_idea == <<".", "i", "d", "e", "a">>
S_claude_desktop_config_json ==
    <<"c", "l", "a", "u", "d", "e", "_", "d", "e", "s", "k", "t", "o", "p", "_",
      "c", "o", "n", "f", "i", "g", ".", "j", "s", "o", "n">>
S_claude_code_config_json ==
    <<"c", "l", "a", "u", "d", "e", "_", "c", "o", "d", "e", "_",
      "c", "o", "n", "f", "i", "g", ".", "j", "s", "o", "n">>
S_settings_json == <<"s", "e", "t", "t", "i", "n", "g", "s", ".", "j", "s", "o", "n">>
S_mcp_json == <<"m", "c", "p", ".", "j", "s", "o", "n">>
S_narsil_mcp == <<"n", "a", "r", "s", "i", "l", "-", "m", "c", "p">>
S_repos == <<"-", "-", "r", "e", "p", "o", "s">>
S_dot == <<".">>
S_neural == <<"-", "-", "n", "e", "u", "r", "a", "l">>

\* mutant of DefaultServer: the --neural flag left out of the default args
DefaultServer_noNeural ==
    Obj([k \in {"command", "args"} |->
            IF k = "command" THEN Str(S_narsil_mcp)
            ELSE Arr(<<Str(S_repos), Str(S_dot)>>)])

\* json!({"command": "narsil-mcp", "args": ["--repos", ".", "--neural"]})
DefaultServer ==
    Obj([k \in {"command", "args"} |->
            IF k = "command" THEN Str(S_narsil_mcp)
            ELSE Arr(<<Str(S_repos), Str(S_dot), Str(S_neural)>>)])

----------------------------------------------------------------------------
(* Credential rules *)

\* char::is_whitespace, on the characters the model draws
Whitespace == {" ", "\t", "\n", "\r"}

RECURSIVE TrimStartMatches(_, _)
TrimStartMatches(s, chars) ==
    IF s # <<>> /\ Head(s) \in chars THEN TrimStartMatches(Tail(s), chars) ELSE s

RECURSIVE TrimEndMatches(_, _)
TrimEndMatches(s, chars) ==
    IF s # <<>> /\ s[Len(s)] \in chars
    THEN TrimEndMatches(SubSeq(s, 1, Len(s) - 1), chars)
    ELSE s

\* str::trim_matches: every leading and every trailing match is removed
trim_matches(s, chars) == TrimEndMatches(TrimStartMatches(s, chars), chars)

\* str::trim
trim(s) == trim_matches(s, Whitespace)

\* mutant of sanitize_api_key: one quote character at most taken from each side
sanitize_api_key_oneLayer(key) ==
    LET t == trim(key)
        a == IF t # <<>> /\ Head(t) \in {"\"", "'"} THEN Tail(t) ELSE t
    IN  IF a # <<>> /\ a[Len(a)] \in {"\"", "'"} THEN SubSeq(a, 1, Len(a) - 1) ELSE a

\* NeuralWizard::sanitize_api_key
sanitize_api_key(key) == trim_matches(trim_matches(trim(key), {"\""}), {"'"})

S_pa == <<"p", "a", "-">>
S_sk == <<"s", "k", "-">>

\* ApiProvider
Providers == {"Voyage", "OpenAI", "Custom"}

\* mutant of validate_key_format: the length test dropped
validate_key_format_prefixOnly(key, provider) ==
    CASE provider = "Voyage" -> StartsWith(key, S_pa)
      [] provider = "OpenAI" -> StartsWith(key, S_sk)
      [] provider = "Custom" -> key # <<>>

\* mutant of validate_key_format: a length of exactly 10 accepted
validate_key_format_atLeast10(key, provider) ==
    CASE provider = "Voyage" -> StartsWith(key, S_pa) /\ Len(key) >= 10
      [] provider = "OpenAI" -> StartsWith(key, S_sk) /\ Len(key) >= 10
      [] provider = "Custom" -> key # <<>>

\* NeuralWizard::validate_key_format
validate_key_format(key, provider) ==
    CASE provider = "Voyage" -> StartsWith(key, S_pa) /\ Len(key) > 10
      [] provider = "OpenAI" -> StartsWith(key, S_sk) /\ Len(key) > 10
      [] provider = "Custom" -> key # <<>>

\* ApiProvider::env_var_name
env_var_name_of(provider) ==
    CASE provider = "Voyage" -> "VOYAGE_API_KEY"
      [] provider = "OpenAI" -> "OPENAI_API_KEY"
      [] provider = "Custom" -> "EMBEDDING_API_KEY"

----------------------------------------------------------------------------
(* Paths: a path is a sequence of components, each a text *)

\* Path::to_string_lossy: the components joined by the separator
RECURSIVE PathStr(_)
PathStr(p) ==
    IF p = <<>> THEN <<>> ELSE <<"/">> \o Head(p) \o PathStr(Tail(p))

\* Path::file_name().and_then(to_str).unwrap_or("")
FileName(p) == IF p = <<>> THEN <<>> ELSE p[Len(p)]

\* Path::parent
Parent(p) == SubSeq(p, 1, Len(p) - 1)

\* the directory and all its ancestors, as fs::create_dir_all makes them
Ancestors(d) == {SubSeq(d, 1, i) : i \in 0..Len(d)}

----------------------------------------------------------------------------
(* Dialect classification *)

\* mutant of detect_editor_type: the substring rules tried before the file names
detect_editor_type_substringsFirst(config_path) ==
    LET path_str == PathStr(config_path)
        filename == FileName(config_path)
    IN  IF Contains(path_str, S_zed) THEN "Zed"
        ELSE IF Contains(path_str, S_vscode) THEN "VSCode"
        ELSE IF Contains(path_str, S_idea) THEN "JetBrains"
        ELSE IF filename = S_claude_desktop_config_json THEN "ClaudeDesktop"
        ELSE IF filename = S_claude_code_config_json THEN "ClaudeCode"
        ELSE IF filename = S_settings_json THEN "Zed"
        ELSE IF filename = S_mcp_json THEN "VSCode"
        ELSE "Err"

\* NeuralWizard::detect_editor_type: an EditorType, or "Err" (anyhow::bail!)
detect_editor_type(config_path) ==
    LET path_str == PathStr(config_path)
        filename == FileName(config_path)
    IN  IF filename = S_claude_desktop_config_json THEN "ClaudeDesktop"
        ELSE IF filename = S_claude_code_config_json THEN "ClaudeCode"
        ELSE IF filename = S_settings_json /\ Contains(path_str, S_zed) THEN "Zed"
        ELSE IF filename = S_settings_json THEN "Zed"
        ELSE IF filename = S_mcp_json /\ Contains(path_str, S_vscode) THEN "VSCode"
        ELSE IF filename = S_mcp_json /\ Contains(path_str, S_idea) THEN "JetBrains"
        ELSE IF filename = S_mcp_json THEN "VSCode"
        ELSE IF Contains(path_str, S_zed) THEN "Zed"
        ELSE IF Contains(path_str, S_vscode) THEN "VSCode"
        ELSE IF Contains(path_str, S_idea) THEN "JetBrains"
        ELSE "Err"

\* NeuralWizard::get_config_key_for_editor
get_config_key_for_editor(editor_type) ==
    CASE editor_type \in {"ClaudeDesktop", "ClaudeCode"} -> "mcpServers"
      [] editor_type = "Zed" -> "context_servers"
      [] editor_type \in {"VSCode", "JetBrains"} -> "servers"

----------------------------------------------------------------------------
(* File contents and (de)serialisation *)

\* The bytes of a file: a JSON text (a layout and the value it denotes), or
\* bytes that are no JSON text.
JsonText(fmt, v) == [k |-> "json", fmt |-> fmt, val |-> v]
Garbage == [k |-> "garbage"]

ParseErr == [t |-> "parse_error"]

\* mutant of from_str: unparsable bytes read as an empty document
from_str_lenient(content) == IF content.k = "json" THEN content.val ELSE EmptyObj

\* serde_json::from_str
from_str(content) == IF content.k = "json" THEN content.val ELSE ParseErr

\* serde_json::to_string_pretty
to_string_pretty(v) == JsonText("pretty", v)

----------------------------------------------------------------------------
(* The config merge *)

\* mutant of MergeKey: the env object is made anew on every merge
MergeKey_resetsEnv(config, server_key, env_var_name, api_key) ==
    LET c1 == IF Get(config, server_key) = NoValue
              THEN IndexMutSet(config, <<server_key>>, EmptyObj)
              ELSE config
        c2 == IF c1 = Panic THEN Panic
              ELSE IF Get(Index(c1, server_key), "narsil-mcp") = NoValue
              THEN IndexMutSet(c1, <<server_key, "narsil-mcp">>, DefaultServer)
              ELSE c1
        c3 == IF c2 = Panic THEN Panic
              ELSE IndexMutSet(c2, <<server_key, "narsil-mcp", "env">>, EmptyObj)
    IN  IF c3 = Panic THEN Panic
        ELSE IndexMutSet(c3, <<server_key, "narsil-mcp", "env", env_var_name>>,
                         Str(api_key))

\* mutant of MergeKey: the test for an existing narsil-mcp entry inverted
MergeKey_invertedServerCheck(config, server_key, env_var_name, api_key) ==
    LET c1 == IF Get(config, server_key) = NoValue
              THEN IndexMutSet(config, <<server_key>>, EmptyObj)
              ELSE config
        c2 == IF c1 = Panic THEN Panic
              ELSE IF Get(Index(c1, server_key), "narsil-mcp") # NoValue
              THEN IndexMutSet(c1, <<server_key, "narsil-mcp">>, DefaultServer)
              ELSE c1
        c3 == IF c2 = Panic THEN Panic
              ELSE IF Get(Index(Index(c2, server_key), "narsil-mcp"), "env") = NoValue
              THEN IndexMutSet(c2, <<server_key, "narsil-mcp", "env">>, EmptyObj)
              ELSE c2
    IN  IF c3 = Panic THEN Panic
        ELSE IndexMutSet(c3, <<server_key, "narsil-mcp", "env", env_var_name>>,
                         Str(api_key))

\* NeuralWizard::add_to_editor_config, the in-memory part: the
\* document after the four steps on the parsed config, or Panic when an
\* index assignment hits a value that is neither an object nor null.
MergeKey(config, server_key, env_var_name, api_key) ==
    LET c1 == IF Get(config, server_key) = NoValue
              THEN IndexMutSet(config, <<server_key>>, EmptyObj)
              ELSE config
        c2 == IF c1 = Panic THEN Panic
              ELSE IF Get(Index(c1, server_key), "narsil-mcp") = NoValue
              THEN IndexMutSet(c1, <<server_key, "narsil-mcp">>, DefaultServer)
              ELSE c1
        c3 == IF c2 = Panic THEN Panic
              ELSE IF Get(Index(Index(c2, server_key), "narsil-mcp"), "env") = NoValue
              THEN IndexMutSet(c2, <<server_key, "narsil-mcp", "env">>, EmptyObj)
              ELSE c2
    IN  IF c3 = Panic THEN Panic
        ELSE IndexMutSet(c3, <<server_key, "narsil-mcp", "env", env_var_name>>,
                         Str(api_key))

\* NeuralWizard::add_to_editor_config: the result ("Ok", "Err", or "Panic"
\* for a process crash) and the filesystem it leaves.
add_to_editor_config(fs_files, fs_dirs, config_path, env_var_name, api_key) ==
    LET dirs1 == fs_dirs \cup Ancestors(Parent(config_path))
        config == IF config_path \in DOMAIN fs_files
                  THEN from_str(fs_files[config_path])
                  ELSE EmptyObj
        editor_type == detect_editor_type(config_path)
        merged == MergeKey(config, get_config_key_for_editor(editor_type),
                           env_var_name, api_key)
    IN  IF config = ParseErr THEN [res |-> "Err", files |-> fs_files, dirs |-> dirs1]
        ELSE IF editor_type = "Err" THEN [res |-> "Err", files |-> fs_files, dirs |-> dirs1]
        ELSE IF merged = Panic THEN [res |-> "Panic", files |-> fs_files, dirs |-> dirs1]
        ELSE [res |-> "Ok",
              files |-> [f \in (DOMAIN fs_files) \cup {config_path} |->
                            IF f = config_path THEN to_string_pretty(merged)
                            ELSE fs_files[f]],
              dirs |-> dirs1]

----------------------------------------------------------------------------
(* Bounds and input sets of the merge harness *)

\* number of add_to_editor_config calls in one behaviour
MaxCalls == 2

T_tmp == <<"t">>
C_a == <<"a">>
C_b == <<"b">>
C_c == <<"c">>
C_conf_json == <<"c", "o", "n", "f", ".", "j", "s", "o", "n">>
C_invalid_json == <<"i", "n", "v", "a", "l", "i", "d", ".", "j", "s", "o", "n">>
C_unzed_json == <<"u", "n", "z", "e", "d", ".", "j", "s", "o", "n">>

\* the directory the harness works in (tempdir() of the tests)
BaseDir == <<T_tmp>>

KnownPaths ==
    { <<T_tmp, S_claude_desktop_config_json>>,
      <<T_tmp, S_zed, S_claude_code_config_json>>,
      <<T_tmp, S_vscode, S_claude_desktop_config_json>>,
      <<T_tmp, S_idea, S_claude_code_config_json>>,
      <<T_tmp, S_settings_json>>,
      <<T_tmp, S_zed, S_settings_json>>,
      <<T_tmp, S_vscode, S_settings_json>>,
      <<T_tmp, S_mcp_json>>,
      <<T_tmp, S_vscode, S_mcp_json>>,
      <<T_tmp, S_idea, S_mcp_json>>,
      <<T_tmp, S_zed, S_mcp_json>>,
      <<T_tmp, S_zed, C_conf_json>>,
      <<T_tmp, S_vscode, C_conf_json>>,
      <<T_tmp, S_idea, C_conf_json>>,
      <<T_tmp, S_vscode, S_zed, C_conf_json>>,
      <<T_tmp, S_idea, S_vscode, C_conf_json>>,
      <<T_tmp, C_unzed_json>>,
      <<T_tmp, C_a, C_b, C_c, S_claude_desktop_config_json>> }

UnknownPaths ==
    { <<T_tmp, C_invalid_json>>,
      <<T_tmp, C_a, C_b, C_invalid_json>> }

Paths == KnownPaths \cup UnknownPaths

EnvNames == {"VOYAGE_API_KEY", "OPENAI_API_KEY"}

K_pa_new == <<"p", "a", "-", "n", "e", "w">>
K_sk_old == <<"s", "k", "-", "o", "l", "d">>
Keys == {K_pa_new, K_sk_old}

ContainerKeys == {"mcpServers", "context_servers", "servers"}

\* an object holding the fields of f that are present
MkObj(f) == Obj([k \in {x \in DOMAIN f : f[x] # NoValue} |-> f[k]])

EnvChoices ==
    { NoValue, Null, Str(<<"x">>), EmptyObj,
      MkObj([OPENAI_API_KEY |-> Str(K_sk_old)]),
      MkObj([OPENAI_API_KEY |-> Str(K_sk_old), VOYAGE_API_KEY |-> Str(<<"p", "a", "-", "0">>)]) }

ServerChoices ==
    { NoValue, Null, Num(1) } \cup
    { MkObj([command |-> c, args |-> a, env |-> e]) :
        c \in {NoValue, Str(<<"x">>)},
        a \in {NoValue, Arr(<<Str(<<"a">>)>>)},
        e \in EnvChoices }

OtherServer == MkObj([command |-> Str(<<"o">>)])

ContainerChoices ==
    { NoValue, Null, Str(<<"x">>) } \cup
    { MkObj([s \in {"narsil-mcp", "other"} |-> IF s = "narsil-mcp" THEN n ELSE o]) :
        n \in ServerChoices, o \in {NoValue, OtherServer} }

\* the documents a config file may hold before the first call
Docs ==
    { Null, Arr(<<Num(1)>>), Str(<<"x">>) } \cup
    { MkObj([k \in {ck, "theme"} |-> IF k = ck THEN c ELSE th]) :
        ck \in ContainerKeys, c \in ContainerChoices, th \in {NoValue, Str(<<"d">>)} }

\* the paths tried with every document of Docs: one per dialect and an unknown one
DocPaths ==
    { <<T_tmp, S_claude_desktop_config_json>>,
      <<T_tmp, S_zed, S_settings_json>>,
      <<T_tmp, S_vscode, S_mcp_json>>,
      <<T_tmp, C_invalid_json>> }

\* the documents tried on every other path
FewDocs ==
    { EmptyObj, Null,
      MkObj([mcpServers |-> Str(<<"x">>), servers |-> Null, theme |-> Str(<<"d">>)]),
      MkObj([mcpServers |-> MkObj([other |-> OtherServer]),
             context_servers |-> MkObj([other |-> OtherServer]),
             servers |-> MkObj([other |-> OtherServer])]) }

DocsAt(p) == IF p \in DocPaths THEN Docs ELSE FewDocs

NoCall == [res |-> "None"]

----------------------------------------------------------------------------
(* The merge harness: one config path, calls with drawn arguments *)

IdleWizard == [editors |-> <<>>]
IdleFn == [op |-> "none"]

InitMerge ==
    /\ path \in Paths
    /\ \E made \in BOOLEAN :
         dirs = IF made THEN Ancestors(Parent(path)) ELSE Ancestors(BaseDir)
    /\ \/ files = <<>>
       \/ /\ Ancestors(Parent(path)) \subseteq dirs
          /\ \E content \in {Garbage} \cup {JsonText("compact", d) : d \in DocsAt(path)} :
               files = [f \in {path} |-> content]
    /\ calls = 0
    /\ last = NoCall
    /\ prev = NoCall
    /\ pc = "idle"
    /\ wiz = IdleWizard
    /\ trace = <<>>
    /\ fn = IdleFn

\* one call of add_to_editor_config(path, env_var_name, api_key)
AddToEditorConfig ==
    /\ calls < MaxCalls
    /\ last.res # "Panic"
    /\ \E env_var_name \in EnvNames, api_key \in Keys :
         LET r == add_to_editor_config(files, dirs, path, env_var_name, api_key)
         IN  /\ files' = r.files
             /\ dirs' = r.dirs
             /\ last' = [res |-> r.res, env |-> env_var_name, key |-> api_key,
                         files |-> files, dirs |-> dirs]
    /\ prev' = last
    /\ calls' = calls + 1
    /\ UNCHANGED <<path, pc, wiz, trace, fn>>

NextMerge == AddToEditorConfig

SpecMerge == InitMerge /\ [][NextMerge]_vars

----------------------------------------------------------------------------
(* Claims about the config merge, checked under SpecMerge *)

Called == last.res # "None"
ExistedBefore == path \in DOMAIN last.files
OldDoc == from_str(last.files[path])
NewDoc == from_str(files[path])
Cred == Str(last.key)

\* the top-level key by the documented priority: exact file names first,
\* then settings.json, then mcp.json, then the substrings
ClaimedKey(p) ==
    LET f == FileName(p)
        s == PathStr(p)
    IN  IF f \in {S_claude_desktop_config_json, S_claude_code_config_json} THEN "mcpServers"
        ELSE IF f = S_settings_json THEN "context_servers"
        ELSE IF f = S_mcp_json THEN "servers"
        ELSE IF Contains(s, S_zed) THEN "context_servers"
        ELSE IF Contains(s, S_vscode) \/ Contains(s, S_idea) THEN "servers"
        ELSE "none"

CredKeys == <<ClaimedKey(path), "narsil-mcp", "env", last.env>>

\* the value reached by following keys from v (NoValue when the way ends)
RECURSIVE At(_, _)
At(v, keys) ==
    IF keys = <<>> \/ v = NoValue THEN v ELSE At(Get(v, Head(keys)), Tail(keys))

\* what the merge makes where nothing was: the objects leading to the
\* credential, the server entry carrying the default launch fields
RECURSIVE Created(_, _)
Created(keys, cred) ==
    IF keys = <<>> THEN cred
    ELSE IF Len(keys) = 2
    THEN Obj([k \in {"command", "args", "env"} |->
                CASE k = "command" -> Str(S_narsil_mcp)
                  [] k = "args" -> Arr(<<Str(S_repos), Str(S_dot), Str(S_neural)>>)
                  [] k = "env" -> Created(Tail(keys), cred)])
    ELSE Obj(Head(keys) :> Created(Tail(keys), cred))

\* new differs from old only along keys: every other field of every object
\* on the way is kept, an absent value becomes the created scaffolding, and
\* (when nullOk) a null on the way becomes an object holding the next key only
RECURSIVE Frame(_, _, _, _, _)
Frame(old, new, keys, cred, nullOk) ==
    IF keys = <<>> THEN new = cred
    ELSE IF old = NoValue THEN new = Created(keys, cred)
    ELSE IF old = Null THEN
        /\ nullOk
        /\ IsObj(new)
        /\ DOMAIN new.m = {Head(keys)}
        /\ Frame(NoValue, new.m[Head(keys)], Tail(keys), cred, nullOk)
    ELSE
        /\ IsObj(old)
        /\ IsObj(new)
        /\ DOMAIN new.m = (DOMAIN old.m) \cup {Head(keys)}
        /\ \A k \in (DOMAIN old.m) \ {Head(keys)} : new.m[k] = old.m[k]
        /\ Frame(Get(old, Head(keys)), new.m[Head(keys)], Tail(keys), cred, nullOk)

MergedExistingObject ==
    /\ Called
    /\ last.res = "Ok"
    /\ ExistedBefore
    /\ IsObj(OldDoc)

\* C1 (as stated): a successful merge into an existing JSON object changes
\* nothing but env[env_var_name] and the container / narsil-mcp / env
\* objects it had to create because they were absent.
C1_FrameAbsentOnly ==
    MergedExistingObject => Frame(OldDoc, NewDoc, CredKeys, Cred, FALSE)

\* C1 (amended): a successful merge into an existing JSON object changes
\* nothing but env[env_var_name] and the container / narsil-mcp / env
\* objects it had to create because they were absent or null; top-level
\* siblings, other servers, the fields of an existing narsil-mcp entry and
\* the other env entries keep their values, and no defaults are injected
\* into an existing entry.
C1_Frame ==
    MergedExistingObject => Frame(OldDoc, NewDoc, CredKeys, Cred, TRUE)

\* C1 witness: a merge of VOYAGE_API_KEY into a document with a sibling key,
\* another server, and a narsil-mcp entry with command, args and an
\* OPENAI_API_KEY
C1_Witness ==
    /\ MergedExistingObject
    /\ last.env = "VOYAGE_API_KEY"
    /\ At(OldDoc, <<"theme">>) = Str(<<"d">>)
    /\ At(OldDoc, <<ClaimedKey(path), "other">>) = OtherServer
    /\ At(OldDoc, <<ClaimedKey(path), "narsil-mcp", "command">>) = Str(<<"x">>)
    /\ At(OldDoc, <<ClaimedKey(path), "narsil-mcp", "args">>) = Arr(<<Str(<<"a">>)>>)
    /\ At(OldDoc, <<ClaimedKey(path), "narsil-mcp", "env", "OPENAI_API_KEY">>) = Str(K_sk_old)
    /\ At(OldDoc, CredKeys) = NoValue
    /\ At(NewDoc, CredKeys) = Str(K_pa_new)
    /\ At(NewDoc, <<ClaimedKey(path), "narsil-mcp", "env", "OPENAI_API_KEY">>) = Str(K_sk_old)

\* C2: when the file exists and is not valid JSON, the call returns an
\* error and the file's bytes are the same after it, whatever the file name.
C2_InvalidJsonUntouched ==
    (Called /\ ExistedBefore /\ last.files[path] = Garbage)
        => (last.res = "Err" /\ files = last.files)

\* C2 witness: a call on an invalid file whose name has a known dialect
C2_Witness ==
    /\ Called
    /\ ExistedBefore
    /\ last.files[path] = Garbage
    /\ path = <<T_tmp, S_claude_desktop_config_json>>
    /\ last.res = "Err"

SameArgsTwice ==
    /\ calls >= 2
    /\ prev.res = "Ok"
    /\ prev.env = last.env
    /\ prev.key = last.key

C4_UnknownDialectWritesNothing ==
    (Called /\ ClaimedKey(path) = "none")
        => (last.res = "Err" /\ files = last.files /\ dirs = last.dirs)

\* C5: the dialect is the one the documented priority gives (no dialect
\* exactly when no rule matches), and a successful merge writes the
\* credential under that top-level key and under no other.
C5_DialectPriority ==
    /\ (detect_editor_type(path) = "Err") <=> (ClaimedKey(path) = "none")
    /\ detect_editor_type(path) # "Err" =>
            get_config_key_for_editor(detect_editor_type(path)) = ClaimedKey(path)
    /\ (Called /\ last.res = "Ok") =>
            /\ At(NewDoc, CredKeys) = Cred
            /\ \A ck \in ContainerKeys \ {ClaimedKey(path)} :
                  Get(NewDoc, ck) = IF ExistedBefore THEN Get(OldDoc, ck) ELSE NoValue

\* C5 witness: settings.json under .vscode is written under context_servers
C5_Witness ==
    /\ Called
    /\ last.res = "Ok"
    /\ path = <<T_tmp, S_vscode, S_settings_json>>
    /\ At(NewDoc, <<"context_servers", "narsil-mcp", "env", last.env>>) = Cred
    /\ At(NewDoc, <<"servers", "narsil-mcp">>) = NoValue

\* C6: on a path that does not exist and has a known dialect the call makes
\* the parent directories and the file, and the document written is exactly
\* {container: {"narsil-mcp": {command, args, env: {env_var_name: key}}}}.
C6_NewFileDocument ==
    (Called /\ ~ExistedBefore /\ ClaimedKey(path) # "none") =>
        /\ last.res = "Ok"
        /\ Ancestors(Parent(path)) \subseteq dirs
        /\ path \in DOMAIN files
        /\ NewDoc =
             Obj(ClaimedKey(path) :>
                 Obj("narsil-mcp" :>
                     Obj([k \in {"command", "args", "env"} |->
                            CASE k = "command" -> Str(S_narsil_mcp)
                              [] k = "args" -> Arr(<<Str(S_repos), Str(S_dot), Str(S_neural)>>)
                              [] k = "env" -> Obj(last.env :> Str(last.key))])))

\* C6 witness: the file is made three missing directories deep
C6_Witness ==
    /\ Called
    /\ ~ExistedBefore
    /\ last.res = "Ok"
    /\ path = <<T_tmp, C_a, C_b, C_c, S_claude_desktop_config_json>>
    /\ <<T_tmp, C_a>> \notin last.dirs
    /\ <<T_tmp, C_a, C_b, C_c>> \in dirs
    /\ path \in DOMAIN files

----------------------------------------------------------------------------
(* The sanitize harness: a raw key is drawn, sanitize_api_key is applied *)

\* longest raw key drawn character by character
MaxRawLen == 5

SanitizeAlphabet == {" ", "\"", "'", "k"}

S_pa_abc == <<"p", "a", "-", "a", "b", "c">>

\* the inputs of test_sanitize_api_key
SanitizeExamples ==
    { <<" ", " ">> \o S_pa_abc \o <<" ", " ">>,
      <<"\"">> \o S_pa_abc \o <<"\"">>,
      <<"'">> \o S_pa_abc \o <<"'">> }

RawKeys ==
    SanitizeExamples \cup UNION {[1..n -> SanitizeAlphabet] : n \in 0..MaxRawLen}

InitSanitize ==
    /\ fn \in {[op |-> "drawn", raw |-> r] : r \in RawKeys}
    /\ files = <<>>
    /\ dirs = {}
    /\ path = <<>>
    /\ calls = 0
    /\ last = NoCall
    /\ prev = NoCall
    /\ pc = "idle"
    /\ wiz = IdleWizard
    /\ trace = <<>>

SanitizeApiKey ==
    /\ fn.op = "drawn"
    /\ fn' = [op |-> "sanitized", raw |-> fn.raw, out |-> sanitize_api_key(fn.raw)]
    /\ UNCHANGED <<files, dirs, path, calls, last, prev, pc, wiz, trace>>

NextSanitize == SanitizeApiKey

SpecSanitize == InitSanitize /\ [][NextSanitize]_vars

----------------------------------------------------------------------------
(* The format harness: a key and a provider are drawn, validate_key_format
   is applied *)

\* longest run of digits appended to a head
MaxTail == 9

DigitChars == <<"1", "2", "3", "4", "5", "6", "7", "8", "9", "0">>

\* the first n characters of 1234567890 1234567890 ...
DigitRun(n) == [i \in 1..n |-> DigitChars[((i - 1) % 10) + 1]]

KeyHeads ==
    { <<>>, <<"p">>, <<"p", "a">>, S_pa, S_sk, <<"s", "k">>, <<"P", "a", "-">>,
      <<"p", "a", "_">>, <<"x", "p", "a", "-">>, <<"x", "s", "k", "-">>, <<"-">> }

FormatKeys == {h \o DigitRun(n) : h \in KeyHeads, n \in 0..MaxTail}

InitValidate ==
    /\ fn \in {[op |-> "drawn", key |-> k, provider |-> p] : k \in FormatKeys, p \in Providers}
    /\ files = <<>>
    /\ dirs = {}
    /\ path = <<>>
    /\ calls = 0
    /\ last = NoCall
    /\ prev = NoCall
    /\ pc = "idle"
    /\ wiz = IdleWizard
    /\ trace = <<>>

ValidateKeyFormat ==
    /\ fn.op = "drawn"
    /\ fn' = [op |-> "validated", key |-> fn.key, provider |-> fn.provider,
              ok |-> validate_key_format(fn.key, fn.provider)]
    /\ UNCHANGED <<files, dirs, path, calls, last, prev, pc, wiz, trace>>

NextValidate == ValidateKeyFormat

SpecValidate == InitValidate /\ [][NextValidate]_vars

----------------------------------------------------------------------------
(* Claims about the credential rules *)

\* s without its longest prefix and then its longest suffix of characters in chars
Stripped(s, chars) ==
    LET lead == CHOOSE n \in 0..Len(s) :
                    /\ \A i \in 1..n : s[i] \in chars
                    /\ n = Len(s) \/ s[n + 1] \notin chars
        rest == SubSeq(s, lead + 1, Len(s))
        trail == CHOOSE n \in 0..Len(rest) :
                    /\ \A i \in (Len(rest) - n + 1)..Len(rest) : rest[i] \in chars
                    /\ n = Len(rest) \/ rest[Len(rest) - n] \notin chars
    IN  SubSeq(rest, 1, Len(rest) - trail)

Sanitized == fn.op = "sanitized"

\* C8 (as stated): the result is the whitespace-trimmed input with at most
\* one quote character removed from its start and at most one from its end.
C8_AtMostOneQuotePerSide ==
    Sanitized =>
        LET t == Stripped(fn.raw, Whitespace)
        IN  \E a \in 0..1, b \in 0..1 :
              /\ a + b <= Len(t)
              /\ fn.out = SubSeq(t, 1 + a, Len(t) - b)
              /\ a = 1 => t[1] \in {"\"", "'"}
              /\ b = 1 => t[Len(t)] \in {"\"", "'"}

\* C8 (amended): the result is the input with surrounding whitespace
\* trimmed, then every leading and every trailing double quote removed, then
\* every leading and every trailing single quote removed, each side
\* independently; "  pa-abc  ", "\"pa-abc\"" and "'pa-abc'" yield "pa-abc".
C8_AllSurroundingQuotes ==
    Sanitized =>
        /\ fn.out = Stripped(Stripped(Stripped(fn.raw, Whitespace), {"\""}), {"'"})
        /\ fn.raw \in SanitizeExamples => fn.out = S_pa_abc

\* C8 witness: a key in two layers of double quotes loses both
C8_Witness ==
    /\ Sanitized
    /\ fn.raw = <<"\"", "\"", "k", "\"", "\"">>
    /\ fn.out = <<"k">>

Validated == fn.op = "validated"

HasPrefix3(key, a, b, c) ==
    /\ Len(key) >= 3
    /\ key[1] = a
    /\ key[2] = b
    /\ key[3] = c

\* C9: Voyage keys are accepted exactly when they start with pa- and are
\* longer than 10, OpenAI keys exactly when they start with sk- and are
\* longer than 10, Custom keys exactly when they are not empty.
C9_KeyFormat ==
    Validated =>
        /\ fn.provider = "Voyage" =>
              (fn.ok <=> (HasPrefix3(fn.key, "p", "a", "-") /\ Len(fn.key) >= 11))
        /\ fn.provider = "OpenAI" =>
              (fn.ok <=> (HasPrefix3(fn.key, "s", "k", "-") /\ Len(fn.key) >= 11))
        /\ fn.provider = "Custom" => (fn.ok <=> Len(fn.key) >= 1)

\* C9 witness: the shortest accepted Voyage key, 11 characters
C9_Witness ==
    /\ Validated
    /\ fn.provider = "Voyage"
    /\ fn.key = S_pa \o DigitRun(8)
    /\ fn.ok

K_pa_1234567 == <<"p", "a", "-", "1", "2", "3", "4", "5", "6", "7">>

\* C10 (as stated): validate_key_format("pa-1234567", Voyage) is true.
C10_ExampleAccepted ==
    (Validated /\ fn.key = K_pa_1234567 /\ fn.provider = "Voyage") => fn.ok

\* C10 (amended): validate_key_format("pa-1234567", Voyage) is false, the
\* key being 10 characters long and not longer than 10.
C10_ExampleRejected ==
    (Validated /\ fn.key = K_pa_1234567 /\ fn.provider = "Voyage") => ~fn.ok

\* C10 witness: the key of the example has been validated for Voyage
C10_Witness ==
    /\ Validated
    /\ fn.key = K_pa_1234567
    /\ Len(fn.key) = 10
    /\ fn.provider = "Voyage"
    /\ ~fn.ok

----------------------------------------------------------------------------
(* Provider selection *)

UpperChars == <<"A", "B", "C", "D", "E", "F", "G", "H", "I", "J", "K", "L", "M",
                "N", "O", "P", "Q", "R", "S", "T", "U", "V", "W", "X", "Y", "Z">>
LowerChars == <<"a", "b", "c", "d", "e", "f", "g", "h", "i", "j", "k", "l", "m",
                "n", "o", "p", "q", "r", "s", "t", "u", "v", "w", "x", "y", "z">>

\* str::to_lowercase, on ASCII text
to_lowercase(s) ==
    [i \in 1..Len(s) |->
        IF \E j \in 1..26 : UpperChars[j] = s[i]
        THEN LowerChars[CHOOSE j \in 1..26 : UpperChars[j] = s[i]]
        ELSE s[i]]

S_voyage == <<"v", "o", "y", "a", "g", "e">>
S_openai == <<"o", "p", "e", "n", "a", "i">>
S_custom == <<"c", "u", "s", "t", "o", "m">>

\* mutant of ApiProvider::parse: the token matched without lower-casing it
ApiProvider_parse_caseSensitive(s) ==
    CASE s = S_voyage \/ s = <<"1">> -> "Voyage"
      [] s = S_openai \/ s = <<"2">> -> "OpenAI"
      [] s = S_custom \/ s = <<"3">> -> "Custom"
      [] OTHER -> "None"

\* ApiProvider::parse: a provider, or "None"
ApiProvider_parse(s) ==
    LET l == to_lowercase(s)
    IN  CASE l = S_voyage \/ l = <<"1">> -> "Voyage"
          [] l = S_openai \/ l = <<"2">> -> "OpenAI"
          [] l = S_custom \/ l = <<"3">> -> "Custom"
          [] OTHER -> "None"

----------------------------------------------------------------------------
(* Editor discovery (config/editor.rs) *)

C_home == <<"h", "o", "m", "e">>
C_work == <<"w", "o", "r", "k">>
C_Claude == <<"C", "l", "a", "u", "d", "e">>
C_dot_claude == <<".", "c", "l", "a", "u", "d", "e">>
C_dot_config == <<".", "c", "o", "n", "f", "i", "g">>

\* EditorType, in declaration order
EditorTypes == <<"ClaudeDesktop", "ClaudeCode", "Zed", "VSCode", "JetBrains">>

\* get_editor_config_path: a well-known directory joined with the editor's file name
get_editor_config_path(editor_type) ==
    CASE editor_type = "ClaudeDesktop" -> <<C_home, C_Claude, S_claude_desktop_config_json>>
      [] editor_type = "ClaudeCode" -> <<C_home, C_dot_claude, S_claude_code_config_json>>
      [] editor_type = "Zed" -> <<C_home, C_dot_config, S_zed, S_settings_json>>
      [] editor_type = "VSCode" -> <<C_work, S_vscode, S_mcp_json>>
      [] editor_type = "JetBrains" -> <<C_work, S_idea, S_mcp_json>>

\* detect_available_editors: one EditorConfig per editor, stamped with
\* whether its config file exists
detect_available_editors(fs_files) ==
    [i \in 1..Len(EditorTypes) |->
        [editor_type |-> EditorTypes[i],
         config_path |-> get_editor_config_path(EditorTypes[i]),
         exists |-> get_editor_config_path(EditorTypes[i]) \in DOMAIN fs_files]]

----------------------------------------------------------------------------
(* The wizard: NeuralWizard::run, one action per prompt *)

\* greatest number typed at the editor prompt
MaxChoice == 6

\* usize arithmetic wraps modulo 2^64 in a build without overflow checks; the
\* model keeps the wrap at 16 bits, TLC's integers being 32 bits wide
UsizeModulus == 65536

\* a line as read_line returns it
Line(s) == s \o <<"\n">>

DigitValue(c) == CHOOSE d \in 0..9 : DigitChars[((d + 9) % 10) + 1] = c
IsDigit(c) == \E d \in 0..9 : DigitChars[((d + 9) % 10) + 1] = c

RECURSIVE DecimalValue(_)
DecimalValue(s) ==
    IF s = <<>> THEN 0
    ELSE 10 * DecimalValue(SubSeq(s, 1, Len(s) - 1)) + DigitValue(s[Len(s)])

\* str::parse::<usize>: the number, or -1 for Err
parse_usize(s) ==
    LET digits == IF s # <<>> /\ Head(s) = "+" THEN Tail(s) ELSE s
    IN  IF digits # <<>> /\ \A i \in 1..Len(digits) : IsDigit(digits[i])
        THEN DecimalValue(digits)
        ELSE -1

RECURSIVE Decimal(_)
Decimal(n) ==
    IF n < 10 THEN <<DigitChars[((n + 9) % 10) + 1]>>
    ELSE Decimal(n \div 10) \o <<DigitChars[(((n % 10) + 9) % 10) + 1]>>

EditorInputs ==
    {Line(Decimal(n)) : n \in 0..MaxChoice}
        \cup {Line(<<"a">>), Line(<<>>), Line(<<"-", "1">>), Line(<<" ", "+", "2", " ">>)}

ProviderInputs ==
    { Line(<<"1">>), Line(<<"2">>), Line(<<"3">>), Line(<<"4">>), Line(<<>>),
      Line(<<"V", "o", "y", "a", "g", "e">>), Line(<<"O", "P", "E", "N", "A", "I">>),
      Line(<<" ">> \o S_custom) }

KeyInputs ==
    { Line(S_pa \o DigitRun(8)),
      Line(<<" ", "\"">> \o S_sk \o DigitRun(8) \o <<"\"", " ">>),
      Line(S_pa \o DigitRun(7)),
      Line(<<"'", "'">>),
      Line(<<>>) }

Answers == {Line(<<>>), Line(<<"y">>), Line(<<"Y">>), Line(<<"n">>), Line(<<" ", "y">>)}

\* what an editor config file holds when the wizard starts
WizardContents ==
    { JsonText("compact", EmptyObj),
      JsonText("compact",
               MkObj([mcpServers |-> Str(<<"x">>), context_servers |-> Str(<<"x">>),
                      servers |-> Str(<<"x">>)])),
      Garbage }

EditorPaths == {get_editor_config_path(EditorTypes[i]) : i \in 1..Len(EditorTypes)}

InitWizard ==
    /\ \E present \in SUBSET EditorPaths, content \in WizardContents :
         /\ files = [f \in present |-> content]
         /\ dirs = UNION {Ancestors(Parent(f)) : f \in present}
    /\ pc = "start"
    /\ wiz = [files0 |-> files, dirs0 |-> dirs, available |-> <<>>, editor_input |-> <<>>,
              selected |-> 0, provider |-> "None", api_key |-> <<>>, outcome |-> "Running"]
    /\ trace = <<>>
    /\ path = <<>>
    /\ calls = 0
    /\ last = NoCall
    /\ prev = NoCall
    /\ fn = IdleFn

\* run, step 1: detect the editors, keep those whose config exists, return
\* Ok(()) when there is none
DetectEditors ==
    /\ pc = "start"
    /\ LET editors == detect_available_editors(files)
           available_editors == SelectSeq(editors, LAMBDA e : e.exists)
       IN  IF available_editors = <<>>
           THEN /\ pc' = "done"
                /\ wiz' = [wiz EXCEPT !.outcome = "Ok"]
                /\ trace' = trace
           ELSE /\ pc' = "prompt_editor"
                /\ wiz' = [wiz EXCEPT !.available = available_editors]
                /\ trace' = Append(trace, "editors_found")
    /\ UNCHANGED <<files, dirs, path, calls, last, prev, fn>>

\* NeuralWizard::prompt_for_editor: the 1-based position chosen, "Err", or
\* "Panic" (choice - 1 overflowing in a build with overflow checks)
prompt_for_editor(editors, input, overflow_checks) ==
    LET choice == parse_usize(trim(input))
        index == (choice - 1) % UsizeModulus
    IN  IF choice = -1 THEN [res |-> "Err", at |-> 0]
        ELSE IF choice - 1 < 0 /\ overflow_checks THEN [res |-> "Panic", at |-> 0]
        ELSE IF index < Len(editors) THEN [res |-> "Ok", at |-> index + 1]
        ELSE [res |-> "Err", at |-> 0]

\* run, step 2
PromptForEditor ==
    /\ pc = "prompt_editor"
    /\ \E input \in EditorInputs, overflow_checks \in BOOLEAN :
         LET r == prompt_for_editor(wiz.available, input, overflow_checks)
         IN  IF r.res = "Ok"
             THEN /\ pc' = "prompt_provider"
                  /\ wiz' = [wiz EXCEPT !.editor_input = input, !.selected = r.at]
                  /\ trace' = Append(trace, "editor_selected")
             ELSE /\ pc' = "done"
                  /\ wiz' = [wiz EXCEPT !.editor_input = input, !.outcome = r.res]
                  /\ trace' = trace
    /\ UNCHANGED <<files, dirs, path, calls, last, prev, fn>>

\* NeuralWizard::prompt_for_provider
prompt_for_provider(input) ==
    LET provider == ApiProvider_parse(trim(input))
    IN  IF provider = "None" THEN [res |-> "Err", provider |-> "None"]
        ELSE [res |-> "Ok", provider |-> provider]

\* run, step 3
PromptForProvider ==
    /\ pc = "prompt_provider"
    /\ \E input \in ProviderInputs :
         LET r == prompt_for_provider(input)
         IN  IF r.res = "Ok"
             THEN /\ pc' = "prompt_api_key"
                  /\ wiz' = [wiz EXCEPT !.provider = r.provider]
                  /\ trace' = Append(trace, "provider_parsed")
             ELSE /\ pc' = "done"
                  /\ wiz' = [wiz EXCEPT !.outcome = "Err"]
                  /\ trace' = trace
    /\ UNCHANGED <<files, dirs, path, calls, last, prev, fn>>

\* mutant of prompt_for_api_key: the format check left out
prompt_for_api_key_unchecked(input, provider) ==
    [res |-> "Ok", key |-> sanitize_api_key(trim(input))]

\* NeuralWizard::prompt_for_api_key
prompt_for_api_key(input, provider) ==
    LET key == sanitize_api_key(trim(input))
    IN  IF ~validate_key_format(key, provider) THEN [res |-> "Err", key |-> <<>>]
        ELSE [res |-> "Ok", key |-> key]

\* run, step 4
PromptForApiKey ==
    /\ pc = "prompt_api_key"
    /\ \E input \in KeyInputs :
         LET r == prompt_for_api_key(input, wiz.provider)
         IN  IF r.res = "Ok"
             THEN /\ pc' = "confirm_validate"
                  /\ wiz' = [wiz EXCEPT !.api_key = r.key]
                  /\ trace' = Append(trace, "key_accepted")
             ELSE /\ pc' = "done"
                  /\ wiz' = [wiz EXCEPT !.outcome = "Err"]
                  /\ trace' = trace
    /\ UNCHANGED <<files, dirs, path, calls, last, prev, fn>>

\* NeuralWizard::validate_api_key: a stub that accepts every key
validate_api_key(key, provider) == "Ok"

\* run, step 5: ask whether to validate, validate, and on a failure ask
\* whether to continue
ValidateKey ==
    /\ pc = "confirm_validate"
    /\ \E answer \in Answers, cont \in Answers :
         LET validate == trim(answer) = <<>> \/ to_lowercase(trim(answer)) = <<"y">>
             verdict == IF validate THEN validate_api_key(wiz.api_key, wiz.provider)
                        ELSE "Skipped"
         IN  IF verdict = "Err" /\ to_lowercase(trim(cont)) # <<"y">>
             THEN /\ pc' = "done"
                  /\ wiz' = [wiz EXCEPT !.outcome = "Ok"]
                  /\ trace' = Append(trace, "verify_failed_declined")
             ELSE /\ pc' = "add_to_editor_config"
                  /\ wiz' = wiz
                  /\ trace' = Append(trace, CASE verdict = "Ok" -> "verified"
                                              [] verdict = "Skipped" -> "verify_skipped"
                                              [] verdict = "Err" -> "verify_failed_continued")
    /\ UNCHANGED <<files, dirs, path, calls, last, prev, fn>>

\* run, step 6: the merge into the selected editor's config, and the end of run
AddKeyToSelectedEditor ==
    /\ pc = "add_to_editor_config"
    /\ LET r == add_to_editor_config(files, dirs,
                                     wiz.available[wiz.selected].config_path,
                                     env_var_name_of(wiz.provider), wiz.api_key)
       IN  /\ files' = r.files
           /\ dirs' = r.dirs
           /\ wiz' = [wiz EXCEPT !.outcome = r.res]
    /\ trace' = Append(trace, "merge")
    /\ pc' = "done"
    /\ UNCHANGED <<path, calls, last, prev, fn>>

NextWizard ==
    \/ DetectEditors
    \/ PromptForEditor
    \/ PromptForProvider
    \/ PromptForApiKey
    \/ ValidateKey
    \/ AddKeyToSelectedEditor

SpecWizard == InitWizard /\ [][NextWizard]_vars

----------------------------------------------------------------------------
(* Claims about the wizard, checked under SpecWizard *)

Merges == Cardinality({i \in 1..Len(trace) : trace[i] = "merge"})

\* the shape validate_key_format is documented to require
DocumentedShape(key, provider) ==
    CASE provider = "Voyage" -> HasPrefix3(key, "p", "a", "-") /\ Len(key) >= 11
      [] provider = "OpenAI" -> HasPrefix3(key, "s", "k", "-") /\ Len(key) >= 11
      [] provider = "Custom" -> Len(key) >= 1
      [] OTHER -> FALSE

\* C7: the merge is invoked at most once in a run, and only after
\* discovery found an existing config, an in-range editor was selected, a
\* provider was parsed and the sanitized key passed the format check, in
\* that order, and verification was skipped, succeeded, or failed and was
\* continued; nothing is written before it; a run with no editor config, or
\* one declined after a failed verification, ends with Ok and no write.
C7_MergeLastAndOnce ==
    /\ Merges <= 1
    /\ Merges = 1 =>
          /\ Len(trace) = 6
          /\ SubSeq(trace, 1, 4) =
                <<"editors_found", "editor_selected", "provider_parsed", "key_accepted">>
          /\ trace[5] \in {"verify_skipped", "verified", "verify_failed_continued"}
          /\ trace[6] = "merge"
          /\ pc = "done"
          /\ wiz.selected \in 1..Len(wiz.available)
          /\ wiz.available[wiz.selected].config_path \in DOMAIN wiz.files0
          /\ wiz.provider \in Providers
          /\ DocumentedShape(wiz.api_key, wiz.provider)
          /\ \A f \in DOMAIN files :
                files[f] # wiz.files0[f] =>
                    f = wiz.available[wiz.selected].config_path
    /\ Merges = 0 => (files = wiz.files0 /\ dirs = wiz.dirs0)
    /\ (pc = "done" /\ wiz.files0 = <<>>) => (wiz.outcome = "Ok" /\ Merges = 0)
    /\ (pc = "done" /\ trace # <<>> /\ trace[Len(trace)] = "verify_failed_declined")
          => (wiz.outcome = "Ok" /\ Merges = 0)

\* C7 witness: a run that went through every prompt and wrote the key
C7_Witness ==
    /\ pc = "done"
    /\ Merges = 1
    /\ wiz.outcome = "Ok"
    /\ files # wiz.files0
    /\ wiz.provider = "OpenAI"
    /\ trace[5] = "verify_skipped"

----------------------------------------------------------------------------
(* The provider harness: a token is drawn, ApiProvider::parse is applied *)

\* most characters put around a name to make a token that is no name
MaxPad == 1

U_voyage == <<"V", "O", "Y", "A", "G", "E">>
U_openai == <<"O", "P", "E", "N", "A", "I">>
U_custom == <<"C", "U", "S", "T", "O", "M">>

\* every way of writing name with each letter in either case
CaseVariants(lower, upper) ==
    {[i \in 1..Len(lower) |-> IF i \in up THEN upper[i] ELSE lower[i]] :
        up \in SUBSET (1..Len(lower))}

NameVariants ==
    CaseVariants(S_voyage, U_voyage) \cup CaseVariants(S_openai, U_openai)
        \cup CaseVariants(S_custom, U_custom)

PadChars == {" ", "x", "1", "\n"}

\* a name with up to MaxPad characters before or after it
PaddedNames ==
    UNION {{pre \o n \o post : pre \in [1..a -> PadChars], post \in [1..b -> PadChars]} :
            n \in {S_voyage, <<"O", "p", "e", "n", "A", "I">>, S_custom, <<"1">>, <<"3">>},
            a \in 0..MaxPad, b \in 0..MaxPad}

OtherTokens ==
    { <<>>, <<"0">>, <<"4">>, <<"+", "1">>, <<"v">>,
      <<"v", "o", "y", "a", "g">>, <<"o", "p", "e", "n">>,
      <<"i", "n", "v", "a", "l", "i", "d">>, <<"n", "o", "n", "s", "e", "n", "s", "e">>,
      <<"V", "o", "y", "a", "g", "e", " ", "A", "I">> }

Tokens == NameVariants \cup PaddedNames \cup OtherTokens \cup {<<"1">>, <<"2">>, <<"3">>}

InitParse ==
    /\ fn \in {[op |-> "drawn", token |-> t] : t \in Tokens}
    /\ files = <<>>
    /\ dirs = {}
    /\ path = <<>>
    /\ calls = 0
    /\ last = NoCall
    /\ prev = NoCall
    /\ pc = "idle"
    /\ wiz = IdleWizard
    /\ trace = <<>>

ParseProvider ==
    /\ fn.op = "drawn"
    /\ fn' = [op |-> "parsed", token |-> fn.token, provider |-> ApiProvider_parse(fn.token)]
    /\ UNCHANGED <<files, dirs, path, calls, last, prev, pc, wiz, trace>>

NextParse == ParseProvider

SpecParse == InitParse /\ [][NextParse]_vars

Parsed == fn.op = "parsed"

\* token is name written with each letter in lower or upper case
IsCaseVariant(token, lower, upper) ==
    /\ Len(token) = Len(lower)
    /\ \A i \in 1..Len(lower) : token[i] = lower[i] \/ token[i] = upper[i]

\* C11: parse gives Voyage for every letter-case variant of voyage and for
\* 1, OpenAI for every variant of openai and for 2, Custom for every variant
\* of custom and for 3, and no match (never an error) for every other token.
C11_ParseProvider ==
    Parsed =>
        /\ fn.provider \in Providers \cup {"None"}
        /\ fn.provider = "Voyage" <=>
              (IsCaseVariant(fn.token, S_voyage, U_voyage) \/ fn.token = <<"1">>)
        /\ fn.provider = "OpenAI" <=>
              (IsCaseVariant(fn.token, S_openai, U_openai) \/ fn.token = <<"2">>)
        /\ fn.provider = "Custom" <=>
              (IsCaseVariant(fn.token, S_custom, U_custom) \/ fn.token = <<"3">>)

\* C11 witness: a mixed-case name is matched
C11_Witness ==
    /\ Parsed
    /\ fn.token = <<"v", "O", "y", "A", "g", "E">>
    /\ fn.provider = "Voyage"

----------------------------------------------------------------------------
(* Failures of the config merge, checked under SpecMerge *)

\* a JSON value that is no object: an array, a string or a number
NotAnObject(v) == v.t \in {"arr", "str", "num"}

\* the existing file is valid JSON and the root, the container, the
\* narsil-mcp value or the env value of its document is no object
NonObjectOnTheWay ==
    /\ ExistedBefore
    /\ ClaimedKey(path) # "none"
    /\ OldDoc # ParseErr
    /\ \E n \in 0..3 : NotAnObject(At(OldDoc, SubSeq(CredKeys, 1, n)))

\* C12: a call that does not succeed returns an error value and leaves the
\* files as they were; a call on a valid JSON file whose root, container,
\* narsil-mcp value or env value is no object returns an error.
C12_FailureIsCleanAbort ==
    /\ (Called /\ last.res # "Ok") => (last.res = "Err" /\ files = last.files)
    /\ (Called /\ NonObjectOnTheWay) => last.res = "Err"

----------------------------------------------------------------------------
(* The editor prompt, checked under SpecWizard *)

\* the line typed at the editor prompt has been read
EditorChosen == wiz.editor_input # <<>>

\* the number typed at the editor prompt (-1 when it is no number)
TypedChoice == parse_usize(trim(wiz.editor_input))

\* C13: a number from 1 to the count of listed editors selects the editor at
\* that position; every other number typed, 0 and numbers above the count
\* included, ends the run with an error (no crash) and nothing written.
C13_EditorChoiceInRange ==
    (EditorChosen /\ TypedChoice # -1) =>
        IF TypedChoice \in 1..Len(wiz.available)
        THEN wiz.selected = TypedChoice
        ELSE /\ wiz.selected = 0
             /\ pc = "done"
             /\ wiz.outcome = "Err"
             /\ Merges = 0
             /\ files = wiz.files0

====
